---- MODULE Spec2Model ----
(***************************************************************************)
(* Model of the `Builder` derive macro of builder/src/lib.rs.              *)
(*                                                                         *)
(* The macro is a pure function from a parsed declaration (DeriveInput)    *)
(* to a token stream.  The token stream is modelled as structured data     *)
(* (the builder struct, the setters, the checks and the expressions of     *)
(* build, the defaults of the factory).  The emitted code is then run:     *)
(* the factory creates the builder, the emitted methods are called and     *)
(* build() is evaluated, all by interpreting the emitted items.            *)
(***************************************************************************)
EXTENDS Integers, Sequences, FiniteSets, TLC

VARIABLES input, output, builder, calls, ret, pc

vars == <<input, output, builder, calls, ret, pc>>

(* ------------------------------ bounds --------------------------------- *)
\* largest number of named fields of a declaration
MaxFields == 2
\* largest number of annotations attached to one field
MaxAttrs == 2
\* largest number of setter / appender calls made on one builder
MaxCalls == 3

(* --------------------------- Option<T> values -------------------------- *)
None == <<>>
Some(v) == <<v>>
is_some(o) == o # <<>>
unwrap_or(o, d) == IF o = <<>> THEN d ELSE o[1]

(* ------------------------------ syn::Type ------------------------------ *)
\* Type::Path whose last segment is `id` with the angle-bracketed type
\* arguments `args` (<<>>: PathArguments::None)
TypePath(id, args) == [kind |-> "Path", ident |-> id, args |-> args]
\* a type that is no Type::Path, e.g. (String, String)
TypeTuple == [kind |-> "Tuple", ident |-> "", args |-> <<>>]

TyString == TypePath("String", <<>>)
TyOption(t) == TypePath("Option", <<t>>)
TyVec(t) == TypePath("Vec", <<t>>)
TyVecNoArg == TypePath("Vec", <<>>)
TyOptionNoArg == TypePath("Option", <<>>)

get_last_path_segment(ty) ==
    IF ty.kind = "Path" THEN Some([ident |-> ty.ident, arguments |-> ty.args])
    ELSE None

is_option(ty) ==
    LET seg == get_last_path_segment(ty)
    IN  IF is_some(seg) THEN seg[1].ident = "Option" ELSE FALSE

is_vector(ty) ==
    LET seg == get_last_path_segment(ty)
    IN  IF is_some(seg) THEN seg[1].ident = "Vec" ELSE FALSE

unwrap_generic_type(ty) ==
    LET seg == get_last_path_segment(ty)
    IN  IF is_some(seg)
        THEN IF seg[1].arguments # <<>> THEN Some(seg[1].arguments[1]) ELSE None
        ELSE None

unwrap_option(ty) == IF ~is_option(ty) THEN None ELSE unwrap_generic_type(ty)

unwrap_vector(ty) == IF ~is_vector(ty) THEN None ELSE unwrap_generic_type(ty)

(* --------------------------- syn::Attribute ---------------------------- *)
\* An attribute is given by the outcome of attr.parse_meta(): Ok(Meta::List),
\* Ok(Meta::Path), Ok(Meta::NameValue) or Err, and for a list by its nested
\* items.  A nested item is a NestedMeta: Meta::NameValue (path, lit),
\* Meta::Path, Meta::List or a bare Lit.
LitStr(s) == [kind |-> "Str", value |-> s]
LitInt(s) == [kind |-> "Int", value |-> s]
NoLit == [kind |-> "", value |-> ""]

NestedNameValue(key, lit) == [kind |-> "NameValue", path |-> <<key>>, lit |-> lit]
NestedPath(key) == [kind |-> "Path", path |-> <<key>>, lit |-> NoLit]
NestedLit(lit) == [kind |-> "Lit", path |-> <<>>, lit |-> lit]

MetaList(name, nested) == [meta |-> "List", path |-> name, nested |-> nested]
MetaPath(name) == [meta |-> "Path", path |-> name, nested |-> <<>>]
MetaNameValue(name) == [meta |-> "NameValue", path |-> name, nested |-> <<>>]
MetaErr == [meta |-> "Err", path |-> "", nested |-> <<>>]

\* the name of an appender that differs from the name of its field
OtherName(ident) == ident \o "_item"

\* the annotations a field named `ident` may carry
Attrs(ident) ==
    { MetaList("builder", <<NestedNameValue("each", LitStr(ident))>>),
      MetaList("builder", <<NestedNameValue("each", LitStr(OtherName(ident)))>>),
      MetaList("builder", <<NestedNameValue("eac", LitStr(OtherName(ident)))>>),
      MetaList("builder", <<NestedNameValue("each", LitInt("42"))>>),
      MetaList("builder", <<NestedNameValue("eac", LitInt("42"))>>),
      MetaList("builder", <<NestedPath("each")>>),
      MetaList("builder", <<NestedLit(LitStr("each"))>>),
      MetaList("builder", <<>>),
      MetaPath("builder"),
      MetaNameValue("doc"),
      MetaErr }

(* ------------------------------ LitOrError ----------------------------- *)
Lit(s) == [tag |-> "Lit", value |-> s, span |-> <<>>]
Error(span, msg) == [tag |-> "Error", value |-> msg, span |-> <<span>>]

\* err.to_compile_error(): the item compile_error!{ msg } anchored at span
to_compile_error(err) ==
    [item |-> "compile_error", name |-> "", arg |-> "", arg_ty |-> <<>>,
     body |-> "", field |-> "", message |-> err.value, span |-> err.span]

(* ------------------------- the annotation resolver --------------------- *)
\* the message of the malformed-directive diagnostic; the two backquotes of
\* the source text are written ' here (a TLA+ string cannot hold a backquote)
ExpectedEachMsg == "expected 'builder(each = \"...\")'"

\* as ident_each_name, but the key of the name/value pair is not compared
ident_each_name_AnyKey(field) ==
    IF field.attrs = <<>> THEN None
    ELSE LET attr == field.attrs[1]
         IN  IF attr.meta = "List"
                /\ attr.nested # <<>>
                /\ attr.nested[1].kind = "NameValue"
                /\ attr.nested[1].lit.kind = "Str"
             THEN Some(Lit(attr.nested[1].lit.value))
             ELSE None

\* as ident_each_name, but on the last annotation of the field
ident_each_name_LastAttr(field) ==
    IF field.attrs = <<>> THEN None
    ELSE LET attr == field.attrs[Len(field.attrs)]
         IN  IF attr.meta = "List"
                /\ attr.nested # <<>>
                /\ attr.nested[1].kind = "NameValue"
                /\ attr.nested[1].lit.kind = "Str"
             THEN IF attr.nested[1].path # <<>>
                     /\ attr.nested[1].path[1] # "each"
                  THEN Some(Error(attr, ExpectedEachMsg))
                  ELSE Some(Lit(attr.nested[1].lit.value))
             ELSE None

\* field.attrs.first().map(|attr| match attr.parse_meta() {..}).flatten()
ident_each_name(field) ==
    IF field.attrs = <<>> THEN None
    ELSE LET attr == field.attrs[1]
         IN  IF attr.meta = "List"
             THEN IF attr.nested # <<>>
                     /\ attr.nested[1].kind = "NameValue"
                     /\ attr.nested[1].lit.kind = "Str"
                  THEN IF attr.nested[1].path # <<>>
                          /\ attr.nested[1].path[1] # "each"
                       THEN Some(Error(attr, ExpectedEachMsg))
                       ELSE Some(Lit(attr.nested[1].lit.value))
                  ELSE None
             ELSE None

(* --------------------------- emitted token items ----------------------- *)
\* pub fn name(&mut self, arg: arg_ty) -> &mut Self { <body on self.field>; self }
\*   body "assign":      self.field = arg;
\*   body "assign_some": self.field = std::option::Option::Some(arg);
\*   body "push":        self.field.push(arg);
FnItem(name, arg_ty, body, field) ==
    [item |-> "fn", name |-> name, arg |-> name, arg_ty |-> <<arg_ty>>,
     body |-> body, field |-> field, message |-> "", span |-> <<>>]

\* the outcome of one closure of the generator: it panics or it yields tokens
Panic == [panic |-> TRUE, items |-> <<>>]
Tokens(items) == [panic |-> FALSE, items |-> items]

\* std::option::Option<#ty>
StdOption(ty) == TypePath("Option", <<ty>>)

Range(seq) == {seq[i] : i \in DOMAIN seq}

(* --------------------------- build_builder_struct ---------------------- *)
\* the type of the builder's slot of one field
slot_type(field) ==
    LET ty == unwrap_or(unwrap_option(field.ty), field.ty)
    IN  IF is_vector(ty) THEN ty ELSE StdOption(ty)

build_builder_struct(fields, builder_name, visibility) ==
    [vis |-> visibility,
     name |-> builder_name,
     struct_fields |-> [i \in DOMAIN fields |->
                          [ident |-> fields[i].ident, ty |-> slot_type(fields[i])]]]

(* --------------------------- build_builder_impl ------------------------ *)
\* as is_checked, without the first filter
is_checked_NoOptionFilter(field) == ~is_vector(field.ty)

\* the fields build() checks: .filter(!is_option).filter(!is_vector)
is_checked(field) == ~is_option(field.ty) /\ ~is_vector(field.ty)

missing_message(ident) == "Required field '" \o ident \o "' is missing"

\* as checks_of, the checks in the reverse of the declaration order
checks_of_Reversed(fields) ==
    LET checked == SelectSeq(fields, is_checked)
        n == Len(checked)
    IN  [i \in DOMAIN checked |->
           [field |-> checked[n + 1 - i].ident,
            err |-> missing_message(checked[n + 1 - i].ident)]]

checks_of(fields) ==
    LET checked == SelectSeq(fields, is_checked)
    IN  [i \in DOMAIN checked |->
           [field |-> checked[i].ident, err |-> missing_message(checked[i].ident)]]

\* as setters_of, but the whole-list setter is emitted beside the appender
\* whatever the appender's name
setters_of_AlwaysBoth(field) ==
    LET ident_each == ident_each_name(field)
        ident == field.ident
        ty == unwrap_or(unwrap_option(field.ty), field.ty)
    IN  IF is_some(ident_each) /\ ident_each[1].tag = "Lit"
        THEN LET name == ident_each[1].value
                 ty_each == unwrap_vector(ty)
             IN  IF ~is_some(ty_each) THEN Panic
                 ELSE Tokens(<<FnItem(ident, ty, "assign", ident),
                               FnItem(name, ty_each[1], "push", ident)>>)
        ELSE IF is_some(ident_each) /\ ident_each[1].tag = "Error"
        THEN Tokens(<<to_compile_error(ident_each[1])>>)
        ELSE IF is_vector(ty)
             THEN Tokens(<<FnItem(ident, ty, "assign", ident)>>)
             ELSE Tokens(<<FnItem(ident, ty, "assign_some", ident)>>)

\* the setters closure for one field
setters_of(field) ==
    LET ident_each == ident_each_name(field)
        ident == field.ident
        ty == unwrap_or(unwrap_option(field.ty), field.ty)
    IN  IF is_some(ident_each) /\ ident_each[1].tag = "Lit"
        THEN LET name == ident_each[1].value
                 ty_each == unwrap_vector(ty)
             IN  IF ~is_some(ty_each) THEN Panic   \* unwrap_vector(ty).unwrap()
                 ELSE IF ident = name
                      THEN Tokens(<<FnItem(name, ty_each[1], "push", ident)>>)
                      ELSE Tokens(<<FnItem(ident, ty, "assign", ident),
                                    FnItem(name, ty_each[1], "push", ident)>>)
        ELSE IF is_some(ident_each) /\ ident_each[1].tag = "Error"
        THEN Tokens(<<to_compile_error(ident_each[1])>>)
        ELSE IF is_vector(ty)
             THEN Tokens(<<FnItem(ident, ty, "assign", ident)>>)
             ELSE Tokens(<<FnItem(ident, ty, "assign_some", ident)>>)

\* the expression build() puts in the record's field
struct_field_of(field) ==
    [ident |-> field.ident,
     expr |-> IF is_option(field.ty) \/ is_vector(field.ty)
              THEN "clone" ELSE "clone_unwrap"]

build_builder_impl(fields, builder_name, struct_name) ==
    IF \E i \in DOMAIN fields : setters_of(fields[i]).panic
    THEN Panic
    ELSE Tokens([name |-> builder_name,
                 setters |-> [i \in DOMAIN fields |-> setters_of(fields[i]).items],
                 checks |-> checks_of(fields),
                 struct_name |-> struct_name,
                 struct_fields |-> [i \in DOMAIN fields |-> struct_field_of(fields[i])]])

(* ----------------------------- build_struct_impl ----------------------- *)
field_default(field) ==
    [ident |-> field.ident,
     value |-> IF is_vector(field.ty) THEN "Vec::new()" ELSE "None"]

build_struct_impl(fields, builder_name, struct_name) ==
    [struct_name |-> struct_name,
     builder_name |-> builder_name,
     field_defaults |-> [i \in DOMAIN fields |-> field_default(fields[i])]]

(* ---------------------------------- derive ----------------------------- *)
\* syn::Error::new(ident.span(), msg).to_compile_error()
ShapeError(ident, msg) == [kind |-> "compile_error", message |-> msg, span |-> ident]

\* format_ident!("{}Builder", ident)
builder_name_of(ident) == ident \o "Builder"

\* as derive, but the shape of the struct's fields is not looked at
derive_AnyFields(inp) ==
    IF inp.data = "Struct"
    THEN LET builder_name == builder_name_of(inp.ident)
             builder_impl == build_builder_impl(inp.named, builder_name, inp.ident)
         IN  IF builder_impl.panic
             THEN [kind |-> "panic"]
             ELSE [kind |-> "tokens",
                   builder_struct |->
                       build_builder_struct(inp.named, builder_name, inp.vis),
                   builder_impl |-> builder_impl.items,
                   struct_impl |->
                       build_struct_impl(inp.named, builder_name, inp.ident)]
    ELSE ShapeError(inp.ident, "expects struct")

derive(inp) ==
    IF inp.data = "Struct"
    THEN IF inp.fields = "Named"
         THEN LET builder_name == builder_name_of(inp.ident)
                  builder_impl == build_builder_impl(inp.named, builder_name, inp.ident)
              IN  IF builder_impl.panic
                  THEN [kind |-> "panic"]
                  ELSE [kind |-> "tokens",
                        builder_struct |->
                            build_builder_struct(inp.named, builder_name, inp.vis),
                        builder_impl |-> builder_impl.items,
                        struct_impl |->
                            build_struct_impl(inp.named, builder_name, inp.ident)]
         ELSE ShapeError(inp.ident, "expects named fields")
    ELSE ShapeError(inp.ident, "expects struct")

(* ------------------- the host compiler's check of the fragment --------- *)
\* The emitted items compile against the original record: a compile_error!
\* item fails the build, the factory's initial value has the slot's type, a
\* method's assignment fits the slot, is_none() is called on an Option slot
\* and the expression of build() has the type of the record's field.
slot_of(out, ident) ==
    LET fs == out.builder_struct.struct_fields
    IN  fs[CHOOSE i \in DOMAIN fs : fs[i].ident = ident].ty

item_checks(out, it) ==
    /\ it.item = "fn"
    /\ LET slot == slot_of(out, it.field)
       IN  CASE it.body = "assign" -> slot = it.arg_ty[1]
             [] it.body = "assign_some" -> slot = StdOption(it.arg_ty[1])
             [] it.body = "push" -> is_vector(slot) /\ unwrap_vector(slot) = it.arg_ty

TypeChecks(inp, out) ==
    /\ \A i \in DOMAIN inp.named :
          LET ident == inp.named[i].ident
              slot == slot_of(out, ident)
              dflt == out.struct_impl.field_defaults[i].value
              expr == out.builder_impl.struct_fields[i].expr
          IN  /\ IF dflt = "Vec::new()" THEN is_vector(slot) ELSE is_option(slot)
              /\ IF expr = "clone" THEN slot = inp.named[i].ty
                                   ELSE slot = StdOption(inp.named[i].ty)
              /\ \A it \in Range(out.builder_impl.setters[i]) : item_checks(out, it)
    /\ \A c \in Range(out.builder_impl.checks) : is_option(slot_of(out, c.field))

(* ------------------------------ run-time values ------------------------ *)
\* a value of an opaque type, a Vec and an Option
Val(x) == [t |-> "T", v |-> x]
VecVal(elems) == [t |-> "Vec", v |-> elems]
OptVal(o) == [t |-> "Option", v |-> o]

Scalars == {Val("x"), Val("y")}
Lists == {VecVal(<<>>), VecVal(<<Val("y")>>), VecVal(<<Val("x"), Val("y")>>)}

\* the arguments a caller may pass for a parameter of type ty
ArgValues(ty) == IF is_vector(ty) THEN Lists ELSE Scalars

NoRet == [tag |-> "none", value |-> <<>>]
RetSelf == [tag |-> "self", value |-> <<>>]
Ok(v) == [tag |-> "Ok", value |-> v]
Err(msg) == [tag |-> "Err", value |-> msg]

Idents(inp) == {inp.named[i].ident : i \in DOMAIN inp.named}

\* the builder S::builder() returns: the field defaults of build_struct_impl
factory_builder(out) ==
    LET ds == out.struct_impl.field_defaults
    IN  [id \in {ds[i].ident : i \in DOMAIN ds} |->
           LET d == ds[CHOOSE i \in DOMAIN ds : ds[i].ident = id]
           IN  IF d.value = "Vec::new()" THEN VecVal(<<>>) ELSE OptVal(None)]

\* as apply_body, but the appender overwrites the list with its element
apply_body_Overwrite(b, it, v) ==
    CASE it.body = "assign" -> [b EXCEPT ![it.field] = v]
      [] it.body = "assign_some" -> [b EXCEPT ![it.field] = OptVal(Some(v))]
      [] it.body = "push" -> [b EXCEPT ![it.field] = VecVal(<<v>>)]

\* the body of an emitted method, run on the builder b with the argument v
apply_body(b, it, v) ==
    CASE it.body = "assign" -> [b EXCEPT ![it.field] = v]
      [] it.body = "assign_some" -> [b EXCEPT ![it.field] = OptVal(Some(v))]
      [] it.body = "push" -> [b EXCEPT ![it.field] = VecVal(Append(b[it.field].v, v))]

\* the body of the emitted build(): the checks in order, then the record
RECURSIVE first_failed(_, _, _)
first_failed(b, checks, i) ==
    IF i > Len(checks) THEN None
    ELSE IF b[checks[i].field] = OptVal(None)     \* self.#ident.is_none()
         THEN Some(checks[i].err)
         ELSE first_failed(b, checks, i + 1)

run_build(out, b) ==
    LET failed == first_failed(b, out.builder_impl.checks, 1)
        sf == out.builder_impl.struct_fields
    IN  IF is_some(failed)
        THEN Err(failed[1])
        ELSE Ok([id \in {sf[i].ident : i \in DOMAIN sf} |->
                   LET e == sf[CHOOSE i \in DOMAIN sf : sf[i].ident = id]
                   IN  IF e.expr = "clone" THEN b[id] ELSE b[id].v[1]])

(* -------------------------------- inputs ------------------------------- *)
\* the name of the i-th field of a declaration
Ident(i) == <<"a", "b", "c", "d", "e">>[i]

Field(ident, ty, attrs) == [ident |-> ident, ty |-> ty, attrs |-> attrs]

StructNamed(vis, named) ==
    [ident |-> "Command", vis |-> vis, data |-> "Struct", fields |-> "Named",
     named |-> named]
\* a tuple struct, a unit struct, an enum, a union
OtherShape(data, fields) ==
    [ident |-> "Command", vis |-> "pub", data |-> data, fields |-> fields,
     named |-> <<>>]

EachOwn(ident) == MetaList("builder", <<NestedNameValue("each", LitStr(ident))>>)
EachOther(ident) ==
    MetaList("builder", <<NestedNameValue("each", LitStr(OtherName(ident)))>>)
BadKeyStr(ident) ==
    MetaList("builder", <<NestedNameValue("eac", LitStr(OtherName(ident)))>>)
BadKeyInt == MetaList("builder", <<NestedNameValue("eac", LitInt("42"))>>)
EachInt == MetaList("builder", <<NestedNameValue("each", LitInt("42"))>>)

\* the declared types of the fields
FieldTypes ==
    { TyString, TyOption(TyString), TyVec(TyString), TyVecNoArg,
      TyOption(TyVec(TyString)), TyVec(TyOption(TyString)), TyOptionNoArg,
      TypeTuple }

\* the fields the generator is run on
DeriveShapes(ident) ==
    { Field(ident, ty, attrs) :
        ty \in FieldTypes,
        attrs \in { <<>>, <<EachOwn(ident)>>, <<EachOther(ident)>>,
                    <<BadKeyStr(ident)>>, <<BadKeyInt>>, <<EachInt>>,
                    <<MetaNameValue("doc"), EachOther(ident)>>,
                    <<MetaNameValue("doc"), BadKeyStr(ident)>> } }

\* the declarations before their named fields are read
DeriveInputs ==
    {StructNamed(vis, <<>>) : vis \in {"pub", ""}}
    \cup {OtherShape("Struct", "Unnamed"), OtherShape("Struct", "Unit"),
          OtherShape("Enum", ""), OtherShape("Union", "")}

\* the fields of the records whose builder is run
RunShapes(ident) ==
    { Field(ident, TyString, <<>>),
      Field(ident, TyOption(TyString), <<>>),
      Field(ident, TyVec(TyString), <<>>),
      Field(ident, TyVec(TyString), <<EachOwn(ident)>>),
      Field(ident, TyVec(TyString), <<EachOther(ident)>>),
      Field(ident, TyOption(TyVec(TyString)), <<>>),
      Field(ident, TyString, <<BadKeyStr(ident)>>) }

RECURSIVE RunFields(_)
RunFields(n) ==
    IF n = 0 THEN {<<>>}
    ELSE {Append(fs, f) : fs \in RunFields(n - 1), f \in RunShapes(Ident(n))}

RunInputs ==
    {StructNamed("pub", named) : named \in UNION {RunFields(n) : n \in 0..MaxFields}}

\* the annotation lists the resolver is run on
RECURSIVE AttrSeqs(_, _)
AttrSeqs(ident, n) ==
    IF n = 0 THEN {<<>>}
    ELSE {Append(as, a) : as \in AttrSeqs(ident, n - 1), a \in Attrs(ident)}

ResolveInputs ==
    {StructNamed("pub", <<Field(Ident(1), TyVec(TyString), attrs)>>) :
        attrs \in UNION {AttrSeqs(Ident(1), n) : n \in 0..MaxAttrs}}

(* -------------------------------- actions ------------------------------ *)
\* parse_macro_input!: one more named field of the struct is read
ParseField ==
    /\ pc = "parse"
    /\ input.data = "Struct" /\ input.fields = "Named"
    /\ Len(input.named) < MaxFields
    /\ \E f \in DeriveShapes(Ident(Len(input.named) + 1)) :
          input' = [input EXCEPT !.named = Append(@, f)]
    /\ UNCHANGED <<output, builder, calls, ret, pc>>

\* the compiler expands #[derive(Builder)] on the declaration
Derive ==
    /\ pc \in {"input", "parse"}
    /\ output' = derive(input)
    /\ pc' = "expanded"
    /\ UNCHANGED <<input, builder, calls, ret>>

\* Command::builder()
Factory ==
    /\ pc = "expanded"
    /\ output.kind = "tokens"
    /\ TypeChecks(input, output)
    /\ builder' = factory_builder(output)
    /\ calls' = [id \in Idents(input) |-> <<>>]
    /\ ret' = NoRet
    /\ pc' = "running"
    /\ UNCHANGED <<input, output>>

NumCalls == LET RECURSIVE sum(_)
                sum(i) == IF i = 0 THEN 0
                          ELSE Len(calls[input.named[i].ident]) + sum(i - 1)
            IN  sum(Len(input.named))

\* builder.<name>(v) for an emitted method
Call ==
    /\ pc = "running"
    /\ NumCalls < MaxCalls
    /\ \E i \in DOMAIN output.builder_impl.setters :
         \E it \in Range(output.builder_impl.setters[i]) :
           \E v \in ArgValues(it.arg_ty[1]) :
              /\ builder' = apply_body(builder, it, v)
              /\ calls' = [calls EXCEPT ![it.field] =
                              Append(@, [name |-> it.name, arg |-> v])]
    /\ ret' = RetSelf
    /\ UNCHANGED <<input, output, pc>>

\* builder.build()
Build ==
    /\ pc = "running"
    /\ ret' = run_build(output, builder)
    /\ UNCHANGED <<input, output, builder, calls, pc>>

\* the resolver alone, on the single field of the declaration
Resolve ==
    /\ pc = "attrs"
    /\ output' = [kind |-> "resolved", each |-> ident_each_name(input.named[1])]
    /\ pc' = "resolved"
    /\ UNCHANGED <<input, builder, calls, ret>>

(* ----------------------------- specifications -------------------------- *)
InitCommon ==
    /\ output = [kind |-> "none"]
    /\ builder = <<>>
    /\ calls = <<>>
    /\ ret = NoRet

\* the builder of a record: expansion, then calls on one builder
Init == InitCommon /\ pc = "input" /\ input \in RunInputs
Next == Derive \/ Factory \/ Call \/ Build
Spec == Init /\ [][Next]_vars

\* the generator on every shape of declaration
InitDerive == InitCommon /\ pc = "parse" /\ input \in DeriveInputs
NextDerive == ParseField \/ Derive
SpecDerive == InitDerive /\ [][NextDerive]_vars

\* the annotation resolver on every list of annotations
InitResolve == InitCommon /\ pc = "attrs" /\ input \in ResolveInputs
NextResolve == Resolve
SpecResolve == InitResolve /\ [][NextResolve]_vars

(* ======================================================================= *)
(*                               properties                                *)
(* ======================================================================= *)
\* the kind of a field as its declaration reads: the outermost type name
DeclaredOption(f) == f.ty.kind = "Path" /\ f.ty.ident = "Option"
DeclaredVec(f) == f.ty.kind = "Path" /\ f.ty.ident = "Vec"
DeclaredRequired(f) == ~DeclaredOption(f) /\ ~DeclaredVec(f)

Built == pc = "running" /\ ret.tag \in {"Ok", "Err"}

UnsetRequired(f) == DeclaredRequired(f) /\ builder[f.ident] = OptVal(None)

\* C1: build() returns Ok iff the storage of every Required field (declared
\* type neither Option nor Vec) is set, whatever the state of the Option and
\* Vec fields; a Required field's storage is set iff its setter was called;
\* an Err carries "Required field '<f>' is missing" for the first unset
\* Required field in declaration order, and for that field only.
C1_BuildOkIffRequiredSet ==
    Built =>
        LET unset == SelectSeq(input.named, UnsetRequired)
        IN  /\ \A i \in DOMAIN input.named :
                 DeclaredRequired(input.named[i]) =>
                    (UnsetRequired(input.named[i])
                        <=> calls[input.named[i].ident] = <<>>)
            /\ ret.tag = "Ok" <=> unset = <<>>
            /\ ret.tag = "Err" =>
                 /\ unset # <<>>
                 /\ ret.value = "Required field '" \o unset[1].ident \o "' is missing"

\* build() failed on a record of two Required fields, the first one set and
\* the second one not
C1_Witness ==
    /\ Built /\ ret.tag = "Err"
    /\ Len(input.named) >= 2
    /\ DeclaredRequired(input.named[1]) /\ DeclaredRequired(input.named[2])
    /\ calls[input.named[1].ident] # <<>>
    /\ calls[input.named[2].ident] = <<>>

\* C2: a field declared Option<T> never makes build() fail; its setter takes
\* the inner T; the built record holds None when the setter was never called
\* and Some(v), v the argument of the last call, otherwise.
C2_OptionalField ==
    pc = "running" =>
        \A i \in DOMAIN input.named :
            LET f == input.named[i]
                cs == calls[f.ident]
            IN  DeclaredOption(f) =>
                  /\ \E it \in Range(output.builder_impl.setters[i]) :
                        it.item = "fn" /\ it.name = f.ident /\ it.arg_ty = f.ty.args
                  /\ ret.tag = "Err" =>
                        ret.value # "Required field '" \o f.ident \o "' is missing"
                  /\ ret.tag = "Ok" =>
                        ret.value[f.ident] =
                            IF cs = <<>> THEN OptVal(None)
                            ELSE OptVal(Some(cs[Len(cs)].arg))

\* build() succeeded after two calls, with different arguments, of the setter
\* of an Option field
C2_Witness ==
    /\ Built /\ ret.tag = "Ok"
    /\ \E i \in DOMAIN input.named :
          /\ DeclaredOption(input.named[i])
          /\ Len(calls[input.named[i].ident]) >= 2
          /\ calls[input.named[i].ident][1].arg # calls[input.named[i].ident][2].arg

\* the name the `each` directive of the field gives its appender, if any
AppenderName(f) ==
    LET r == ident_each_name(f)
    IN  IF is_some(r) /\ r[1].tag = "Lit" THEN Some(r[1].value) ELSE None

\* the calls made on a Vec field, folded in call order from the empty list:
\* the appender appends its element, the setter replaces the contents
RECURSIVE FoldCalls(_, _)
FoldCalls(f, cs) ==
    IF cs = <<>> THEN VecVal(<<>>)
    ELSE LET c == cs[Len(cs)]
             before == FoldCalls(f, SubSeq(cs, 1, Len(cs) - 1))
         IN  IF AppenderName(f) = Some(c.name)
             THEN VecVal(Append(before.v, c.arg))
             ELSE c.arg

\* C3: the list of a Vec field, in the builder and in the built record, is
\* the fold of the calls made on the field, in call order (empty without a
\* call; appender calls accumulate).
C3_ListIsFoldOfCalls ==
    pc = "running" =>
        \A i \in DOMAIN input.named :
            LET f == input.named[i]
            IN  DeclaredVec(f) =>
                  /\ builder[f.ident] = FoldCalls(f, calls[f.ident])
                  /\ ret.tag = "Ok" =>
                        ret.value[f.ident] = FoldCalls(f, calls[f.ident])

\* a record was built after appender, setter, appender on one Vec field
C3_Witness ==
    /\ Built /\ ret.tag = "Ok"
    /\ \E i \in DOMAIN input.named :
          LET f == input.named[i]
              cs == calls[f.ident]
          IN  /\ DeclaredVec(f)
              /\ Len(cs) = 3
              /\ AppenderName(f) = Some(cs[1].name)
              /\ AppenderName(f) # Some(cs[2].name)
              /\ AppenderName(f) = Some(cs[3].name)
              /\ ret.value[f.ident].v = Append(cs[2].arg.v, cs[3].arg)

(* ----------------------- properties of the generator ------------------- *)
Expanded == pc = "expanded"
Emitted == pc = "expanded" /\ output.kind = "tokens"

\* the methods emitted for the i-th field: name, body, parameter type
Methods(i) ==
    {<<it.name, it.body, it.arg_ty>> : it \in Range(output.builder_impl.setters[i])}

\* C4: whenever a fragment is emitted, the operations of a field declared
\* Vec are: the appender alone when the directive's name is the field's name;
\* the whole-list setter named after the field and the appender named after
\* the directive when the names differ; the whole-list setter alone without
\* a directive.
C4_VecOperations ==
    Emitted =>
        \A i \in DOMAIN input.named :
            LET f == input.named[i]
                r == ident_each_name(f)
                setter == <<f.ident, "assign", <<f.ty>>>>
            IN  DeclaredVec(f) =>
                  /\ (is_some(r) /\ r[1].tag = "Lit" /\ r[1].value = f.ident) =>
                        Methods(i) = {<<f.ident, "push", f.ty.args>>}
                  /\ (is_some(r) /\ r[1].tag = "Lit" /\ r[1].value # f.ident) =>
                        Methods(i) = {setter, <<r[1].value, "push", f.ty.args>>}
                  /\ ~is_some(r) => Methods(i) = {setter}

\* a fragment with a Vec field whose appender has the field's name and a Vec
\* field whose appender has another name
C4_Witness ==
    /\ Emitted
    /\ \E i, j \in DOMAIN input.named :
          /\ DeclaredVec(input.named[i]) /\ DeclaredVec(input.named[j])
          /\ input.named[i].attrs = <<EachOwn(input.named[i].ident)>>
          /\ input.named[j].attrs = <<EachOther(input.named[j].ident)>>
          /\ Cardinality(Methods(i)) = 1 /\ Cardinality(Methods(j)) = 2

\* the first annotation of the field is a list whose first nested item is a
\* name/value pair with a key other than `each`
KeyNotEach(f) ==
    /\ f.attrs # <<>>
    /\ f.attrs[1].meta = "List"
    /\ f.attrs[1].nested # <<>>
    /\ f.attrs[1].nested[1].kind = "NameValue"
    /\ f.attrs[1].nested[1].path[1] # "each"

KeyNotEachStr(f) == KeyNotEach(f) /\ f.attrs[1].nested[1].lit.kind = "Str"

Without(seq, i) == SubSeq(seq, 1, i - 1) \o SubSeq(seq, i + 1, Len(seq))

\* in the emitted fragment the i-th field has the diagnostic in place of any
\* setter, and the builder type, the setters of the siblings (those the
\* record without the i-th field gets), build and the factory are there
DiagnosticInPlace(i) ==
    LET n == Len(input.named)
        rest == derive(StructNamed(input.vis, Without(input.named, i)))
    IN  /\ Len(output.builder_impl.setters[i]) = 1
        /\ output.builder_impl.setters[i][1].item = "compile_error"
        /\ output.builder_impl.setters[i][1].message = ExpectedEachMsg
        /\ output.builder_impl.setters[i][1].span = <<input.named[i].attrs[1]>>
        /\ Len(output.builder_struct.struct_fields) = n
        /\ Len(output.builder_impl.struct_fields) = n
        /\ Len(output.struct_impl.field_defaults) = n
        /\ rest.kind = "tokens"
        /\ Without(output.builder_impl.setters, i) = rest.builder_impl.setters
        /\ \A j \in DOMAIN input.named :
              (j # i /\ ~KeyNotEachStr(input.named[j])) =>
                 \A it \in Range(output.builder_impl.setters[j]) : it.item = "fn"

C6_ShapeDiagnosticOnly ==
    (Expanded /\ ~(input.data = "Struct" /\ input.fields = "Named")) =>
        output = [kind |-> "compile_error",
                  message |-> IF input.data = "Struct" THEN "expects named fields"
                              ELSE "expects struct",
                  span |-> input.ident]

\* the generator has run on a tuple struct
C6_Witness ==
    /\ Expanded
    /\ input.data = "Struct" /\ input.fields = "Unnamed"
    /\ output.kind = "compile_error"

\* the storage kind each generated part gives the i-th field
KindOfType(ty) == IF is_vector(ty) THEN "list" ELSE "option"
SlotKind(i) == KindOfType(output.builder_struct.struct_fields[i].ty)
InitKind(i) ==
    IF output.struct_impl.field_defaults[i].value = "Vec::new()" THEN "list"
    ELSE "option"
SetterKinds(i) ==
    {CASE it.body = "assign" -> KindOfType(it.arg_ty[1])
       [] it.body = "assign_some" -> "option"
       [] it.body = "push" -> "list"
       [] OTHER -> "none" : it \in {x \in Range(output.builder_impl.setters[i]) : x.item = "fn"}}
\* self.f.clone() fills a record field of the declared type with the slot,
\* self.f.clone().unwrap() takes the value out of an Option slot
BuildKind(i) ==
    IF output.builder_impl.struct_fields[i].expr = "clone"
    THEN KindOfType(input.named[i].ty)
    ELSE "option"

\* C7, as stated: for every field the slot type, the factory's initial value,
\* the assignments of the setters and the expression of build() are all
\* list-typed or all option-typed.
C7_PartsAgree ==
    Emitted =>
        \A i \in DOMAIN input.named :
            /\ InitKind(i) = SlotKind(i)
            /\ BuildKind(i) = SlotKind(i)
            /\ \A k \in SetterKinds(i) : k = SlotKind(i)

\* C8, as stated: on a struct with named fields the generator ends with a
\* fragment or a diagnostic.
C8_Total ==
    (Expanded /\ input.data = "Struct" /\ input.fields = "Named") =>
        output.kind \in {"tokens", "compile_error"}

\* C9, as stated: the slot of a field declared Vec is the field's type, the
\* slot of any other field is Option<inner>, inner the Option-unwrapped type
\* of an Option field (Option<Vec<T>> gives Option<Vec<T>>) and the field's
\* own type otherwise; slots in field order, in <Record>Builder, with the
\* record's visibility.
C9_SlotType ==
    Emitted =>
        /\ output.builder_struct.name = input.ident \o "Builder"
        /\ output.builder_struct.vis = input.vis
        /\ Len(output.builder_struct.struct_fields) = Len(input.named)
        /\ \A i \in DOMAIN input.named :
              LET f == input.named[i]
                  inner == IF DeclaredOption(f) /\ f.ty.args # <<>>
                           THEN f.ty.args[1] ELSE f.ty
              IN  /\ output.builder_struct.struct_fields[i].ident = f.ident
                  /\ output.builder_struct.struct_fields[i].ty =
                        IF DeclaredVec(f) THEN f.ty
                        ELSE TypePath("Option", <<inner>>)

(* ------------------------ properties of the resolver ------------------- *)
\* the annotation is a list whose first nested item is a name/value pair
\* with a string-literal value
DirectiveShape(a) ==
    /\ a.meta = "List"
    /\ a.nested # <<>>
    /\ a.nested[1].kind = "NameValue"
    /\ a.nested[1].lit.kind = "Str"

\* C10: the outcome is decided by the first annotation alone: no directive
\* without an annotation or when the first annotation has not the directive's
\* shape, else the name (key `each`) or the diagnostic (another key),
\* whatever the annotations after the first.
C10_FirstAnnotationOnly ==
    pc = "resolved" =>
        LET attrs == input.named[1].attrs
            r == output.each
        IN  IF attrs = <<>> \/ ~DirectiveShape(attrs[1])
            THEN r = <<>>
            ELSE /\ r # <<>>
                 /\ IF attrs[1].nested[1].path[1] = "each"
                    THEN r[1].tag = "Lit" /\ r[1].value = attrs[1].nested[1].lit.value
                    ELSE r[1].tag = "Error" /\ r[1].value = ExpectedEachMsg

\* no directive was resolved for a field whose second annotation is a
\* well-formed `each` directive and whose first one is not a list
C10_Witness ==
    /\ pc = "resolved"
    /\ Len(input.named[1].attrs) = 2
    /\ input.named[1].attrs[1].meta = "NameValue"
    /\ input.named[1].attrs[2] = EachOther(input.named[1].ident)
    /\ output.each = <<>>

====
